---- MODULE Spec2Model ----
(***************************************************************************)
(* A model of the lsm_tree crate: MemTable (src/src/memtable.rs), SSTable  *)
(* (src/src/sstable.rs) and LSMTree (src/src/lib.rs).                      *)
(*                                                                         *)
(* The generic key and value types are instantiated as in the crate's own  *)
(* SSTable tests: K = i32 and V = String.  Files are sequences of bytes in *)
(* bincode's default layout: fixed-width little-endian integers, strings   *)
(* as a u64 length followed by the UTF-8 bytes.  File positions are byte   *)
(* offsets counted from 0.                                                 *)
(***************************************************************************)
EXTENDS Integers, Sequences, FiniteSets, TLC

(* ------------------------------ bounds -------------------------------- *)
\* keys offered to LSMTree::insert / LSMTree::get are 1..MaxKey
MaxKey == 1
\* the largest configured memtable_size_threshold
MaxThreshold == 14
\* LSMTree::insert is offered only while sstable_id < MaxRuns
MaxRuns == 2
\* how many times a store is opened on the same data_dir
MaxOpens == 2
\* the SSTable harness builds runs from memtables of up to MaxRunKey keys
MaxRunKey == 21
\* the runs whose file is damaged are built from memtables of up to
\* MaxDamageKey keys
MaxDamageKey == 12
\* keys put into a MemTable on its own are -1..MaxMemKey
MaxMemKey == 1
\* MemTable::put is offered only while the size counter is below MaxPutBytes
MaxPutBytes == 40

(* ------------------------- program constants -------------------------- *)
INDEX_INTERVAL == 10
\* bincode width of the u64 entry_count header and of a String's length
U64_BYTES == 8
\* bincode width of an i32 key
I32_BYTES == 4
\* width of the {:06} field in the sstable file name
ID_WIDTH == 6

DataDir == "data"

(* ----------------------------- bincode -------------------------------- *)
\* what a read returns when the bytes asked for pass the end of the file,
\* or the bytes read are no valid encoding
DeErr(pos) == [ok |-> FALSE, val |-> <<>>, next |-> pos]

\* a length no file of the model reaches: a u64 whose bytes 4..8 are not all 0
HugeLen == 256 * 65536

\* u64, little endian; the model only encodes n < 2^24
SerU64(n) == <<n % 256, (n \div 256) % 256, (n \div 65536) % 256, 0, 0, 0, 0, 0>>

\* i32, little endian, two's complement
SerI32(k) ==
    LET m == IF k >= 0 THEN k ELSE -k - 1
        b == <<m % 256, (m \div 256) % 256, (m \div 65536) % 256, (m \div 16777216) % 256>>
    IN  IF k >= 0 THEN b ELSE <<255 - b[1], 255 - b[2], 255 - b[3], 255 - b[4]>>

\* String: u64 length, then the bytes
SerString(s) == SerU64(Len(s)) \o s

\* the values of V that Serialize rejects (none for String; a generic V may
\* fail, which MemTable::put reports as an Encoding error)
Unencodable == <<255>>

\* bincode::serialized_size of a key and of a value; -1 stands for Err
KeySerializedSize(k) == Len(SerI32(k))
ValueSerializedSize(v) == IF v = Unencodable THEN -1 ELSE Len(SerString(v))

\* the n bytes of file at byte offset pos, or <<-1>> when they pass the end
ReadExact(file, pos, n) ==
    IF pos + n <= Len(file) THEN SubSeq(file, pos + 1, pos + n) ELSE <<-1>>

DeU64(file, pos) ==
    LET b == ReadExact(file, pos, U64_BYTES)
    IN  IF b = <<-1>> THEN DeErr(pos)
        ELSE [ok |-> TRUE,
              val |-> IF \E i \in 4..U64_BYTES : b[i] # 0 THEN HugeLen
                      ELSE b[1] + 256 * b[2] + 65536 * b[3],
              next |-> pos + U64_BYTES]

DeI32(file, pos) ==
    LET b == ReadExact(file, pos, I32_BYTES)
    IN  IF b = <<-1>> THEN DeErr(pos)
        ELSE [ok |-> TRUE,
              val |-> b[1] + 256 * b[2] + 65536 * b[3]
                      + 16777216 * (IF b[4] >= 128 THEN b[4] - 256 ELSE b[4]),
              next |-> pos + I32_BYTES]

\* a String is read as its length, then that many bytes, which must be UTF-8
\* (the model's strings are ASCII: a byte >= 128 never starts a valid string)
DeString(file, pos) ==
    LET n == DeU64(file, pos)
    IN  IF ~n.ok THEN DeErr(pos)
        ELSE LET b == ReadExact(file, n.next, n.val)
             IN  IF b = <<-1>> \/ (\E i \in 1..Len(b) : b[i] >= 128) THEN DeErr(pos)
                 ELSE [ok |-> TRUE, val |-> b, next |-> n.next + n.val]

(* ----------------------------- MemTable ------------------------------- *)
\* data is the BTreeMap, kept as its entries in ascending key order
MemTableNew == [data |-> <<>>, size_bytes |-> 0]

\* an insert that pushes the entry at the end, as into a Vec: the order of
\* arrival is kept and an equal key is not replaced
BTreeInsertAppend(data, k, v) == Append(data, [key |-> k, value |-> v])

\* BTreeMap::insert: replace the entry of an equal key, else insert in order
BTreeInsert(data, k, v) ==
    LET e == [key |-> k, value |-> v]
        less == SelectSeq(data, LAMBDA x : x.key < k)
        more == SelectSeq(data, LAMBDA x : x.key > k)
    IN  less \o <<e>> \o more

\* BTreeMap::get: has |-> FALSE stands for None
BTreeGet(data, k) ==
    LET hit == SelectSeq(data, LAMBDA x : x.key = k)
    IN  IF hit = <<>> THEN [has |-> FALSE, value |-> <<>>]
        ELSE [has |-> TRUE, value |-> hit[1].value]

\* a put that inserts into the map before it sizes the key and the value: a
\* failed put has already changed the contents
MemTablePutInsertFirst(mt, k, v) ==
    LET key_size == KeySerializedSize(k)
        value_size == ValueSerializedSize(v)
    IN  IF key_size < 0 \/ value_size < 0
        THEN [ok |-> FALSE, ret |-> -1,
              mt |-> [data |-> BTreeInsert(mt.data, k, v), size_bytes |-> mt.size_bytes]]
        ELSE [ok |-> TRUE, ret |-> key_size + value_size,
              mt |-> [data |-> BTreeInsert(mt.data, k, v),
                      size_bytes |-> mt.size_bytes + key_size + value_size]]

\* a put that takes the size of the entry it replaces off the counter
MemTablePutExact(mt, k, v) ==
    LET key_size == KeySerializedSize(k)
        value_size == ValueSerializedSize(v)
        old == BTreeGet(mt.data, k)
        old_size == IF old.has THEN key_size + ValueSerializedSize(old.value) ELSE 0
    IN  IF key_size < 0 \/ value_size < 0
        THEN [ok |-> FALSE, ret |-> -1, mt |-> mt]
        ELSE [ok |-> TRUE, ret |-> key_size + value_size,
              mt |-> [data |-> BTreeInsert(mt.data, k, v),
                      size_bytes |-> mt.size_bytes - old_size + key_size + value_size]]

\* MemTable::put: ret is the returned size, -1 for an Encoding error
MemTablePut(mt, k, v) ==
    LET key_size == KeySerializedSize(k)
        value_size == ValueSerializedSize(v)
    IN  IF key_size < 0 \/ value_size < 0
        THEN [ok |-> FALSE, ret |-> -1, mt |-> mt]
        ELSE [ok |-> TRUE, ret |-> key_size + value_size,
              mt |-> [data |-> BTreeInsert(mt.data, k, v),
                      size_bytes |-> mt.size_bytes + key_size + value_size]]

MemTableGet(mt, k) == BTreeGet(mt.data, k)

MemTableSize(mt) == mt.size_bytes

MemTableIter(mt) == mt.data

(* ------------------------------ SSTable ------------------------------- *)
\* what disk holds at a path where no file exists
NoFile == <<-1>>

\* std::fs::File::create: the file at path exists afterwards and is empty
FileCreate(dsk, path) == [dsk EXCEPT ![path] = <<>>]

\* std::fs::File::open(&self.path): opens for reading only; the disk after
\* the call is the disk before it, a missing file stays missing
FileOpen(dsk, path) == dsk

\* the faults std::fs::File::create and the BufWriter can raise while a run
\* is built: none, File::create fails, or the writer fails (the file is
\* created, and of the prefixes a failed write can leave in it the model
\* takes the empty one: the BufWriter holds a small run whole until flush)
NoFault == "none"
CreateFault == "create"
WriteFault == "write"

\* the loop with stream_position() read after the key has been written: the
\* offset of an index entry is then the start of the record's value
RECURSIVE WriteRecordsOffsetAfterKey(_, _, _, _)
WriteRecordsOffsetAfterKey(entries, i, bytes, index) ==
    IF i > Len(entries) THEN [bytes |-> bytes, index |-> index]
    ELSE LET key == entries[i].key
             value == entries[i].value
             position == Len(bytes \o SerI32(key))
             index2 == IF (i - 1) % INDEX_INTERVAL = 0
                       THEN Append(index, [key |-> key, position |-> position])
                       ELSE index
         IN  WriteRecordsOffsetAfterKey(entries, i + 1,
                                        bytes \o SerI32(key) \o SerString(value), index2)

\* the loop of SSTable::from_memtable over memtable.iter().enumerate():
\* i is the 1-based number of the next record, bytes what the writer holds
RECURSIVE WriteRecords(_, _, _, _)
WriteRecords(entries, i, bytes, index) ==
    IF i > Len(entries) THEN [bytes |-> bytes, index |-> index]
    ELSE LET position == Len(bytes)
             key == entries[i].key
             value == entries[i].value
             index2 == IF (i - 1) % INDEX_INTERVAL = 0
                       THEN Append(index, [key |-> key, position |-> position])
                       ELSE index
         IN  WriteRecords(entries, i + 1, bytes \o SerI32(key) \o SerString(value), index2)

\* everything SSTable::from_memtable writes for a memtable, and its index
SSTableImage(mt) ==
    WriteRecords(MemTableIter(mt), 1, SerU64(Len(mt.data)), <<>>)

\* SSTable::from_memtable(memtable, path) on disk dsk under a fault:
\* kind is "Ok" or "IO"; File::create truncates an existing file
SSTableFromMemtable(mt, path, dsk, fault) ==
    LET img == SSTableImage(mt)
    IN  CASE fault = CreateFault ->
               [kind |-> "IO", disk |-> dsk, table |-> [path |-> path, index |-> <<>>]]
          [] fault = WriteFault ->
               [kind |-> "IO", disk |-> [dsk EXCEPT ![path] = <<>>],
                table |-> [path |-> path, index |-> <<>>]]
          [] OTHER ->
               [kind |-> "Ok",
                disk |-> [dsk EXCEPT ![path] = img.bytes],
                table |-> [path |-> path, index |-> img.index]]

BuildFaults == {NoFault, CreateFault, WriteFault}

\* index[i] with Rust's 0-based i
IndexAt(index, i) == index[i + 1]

\* a search that treats an equal key as greater: it returns the insertion
\* point before an entry with the key, never Ok(pos)
RECURSIVE BinarySearchLowerBound(_, _, _, _)
BinarySearchLowerBound(index, search_key, left, right) ==
    IF left >= right THEN [found |-> FALSE, pos |-> left]
    ELSE LET mid == left + ((right - left) \div 2)
             key == IndexAt(index, mid).key
         IN  IF key < search_key
             THEN BinarySearchLowerBound(index, search_key, mid + 1, right)
             ELSE BinarySearchLowerBound(index, search_key, left, mid)

\* slice::binary_search_by(|entry| entry.key.cmp(search_key)):
\* found |-> TRUE is Ok(pos), found |-> FALSE is Err(pos)
RECURSIVE BinarySearch(_, _, _, _)
BinarySearch(index, search_key, left, right) ==
    IF left >= right THEN [found |-> FALSE, pos |-> left]
    ELSE LET mid == left + ((right - left) \div 2)
             key == IndexAt(index, mid).key
         IN  IF key < search_key THEN BinarySearch(index, search_key, mid + 1, right)
             ELSE IF key > search_key THEN BinarySearch(index, search_key, left, mid)
             ELSE [found |-> TRUE, pos |-> mid]

\* the result of SSTable::get: kind is "Some", "None", "IO" or "Serialization";
\* via is "exact" (index hit), "scan" (linear scan) or "none" (neither began);
\* reads are the offsets at which the scan deserialized a key; failed says a
\* read of the scan failed
GetResult(kind, value, via, reads, failed) ==
    [kind |-> kind, value |-> value, via |-> via, reads |-> reads, failed |-> failed]

\* the loop without the check of the next index entry's offset: only a
\* greater key, a match or a failed read ends it
RECURSIVE ScanLoopNoBoundary(_, _, _, _, _, _)
ScanLoopNoBoundary(file, index, index_pos, position, search_key, reads) ==
    LET key == DeI32(file, position)
        reads2 == Append(reads, position)
    IN  IF ~key.ok THEN GetResult("None", <<>>, "scan", reads2, TRUE)
        ELSE LET value == DeString(file, key.next)
             IN  IF key.val = search_key
                 THEN IF value.ok
                      THEN GetResult("Some", value.val, "scan", reads2, FALSE)
                      ELSE GetResult("None", <<>>, "scan", reads2, TRUE)
                 ELSE IF key.val > search_key
                 THEN GetResult("None", <<>>, "scan", reads2, FALSE)
                 ELSE IF value.ok
                      THEN ScanLoopNoBoundary(file, index, index_pos, value.next, search_key, reads2)
                      ELSE GetResult("None", <<>>, "scan", reads2, TRUE)

\* the loop with `?` on the key read: a failed read of the next key is the
\* caller's error
RECURSIVE ScanLoopKeyError(_, _, _, _, _, _)
ScanLoopKeyError(file, index, index_pos, position, search_key, reads) ==
    IF index_pos + 1 < Len(index) /\ position >= IndexAt(index, index_pos + 1).position
    THEN GetResult("None", <<>>, "scan", reads, FALSE)
    ELSE LET key == DeI32(file, position)
             reads2 == Append(reads, position)
         IN  IF ~key.ok THEN GetResult("Serialization", <<>>, "scan", reads2, TRUE)
             ELSE LET value == DeString(file, key.next)
                  IN  IF key.val = search_key
                      THEN IF value.ok
                           THEN GetResult("Some", value.val, "scan", reads2, FALSE)
                           ELSE GetResult("None", <<>>, "scan", reads2, TRUE)
                      ELSE IF key.val > search_key
                      THEN GetResult("None", <<>>, "scan", reads2, FALSE)
                      ELSE IF value.ok
                           THEN ScanLoopKeyError(file, index, index_pos, value.next, search_key, reads2)
                           ELSE GetResult("None", <<>>, "scan", reads2, TRUE)

\* the loop with `?` on the value reads: a failed read of a value is the
\* caller's error
RECURSIVE ScanLoopValueError(_, _, _, _, _, _)
ScanLoopValueError(file, index, index_pos, position, search_key, reads) ==
    IF index_pos + 1 < Len(index) /\ position >= IndexAt(index, index_pos + 1).position
    THEN GetResult("None", <<>>, "scan", reads, FALSE)
    ELSE LET key == DeI32(file, position)
             reads2 == Append(reads, position)
         IN  IF ~key.ok THEN GetResult("None", <<>>, "scan", reads2, TRUE)
             ELSE LET value == DeString(file, key.next)
                  IN  IF key.val = search_key
                      THEN IF value.ok
                           THEN GetResult("Some", value.val, "scan", reads2, FALSE)
                           ELSE GetResult("Serialization", <<>>, "scan", reads2, TRUE)
                      ELSE IF key.val > search_key
                      THEN GetResult("None", <<>>, "scan", reads2, FALSE)
                      ELSE IF value.ok
                           THEN ScanLoopValueError(file, index, index_pos, value.next, search_key, reads2)
                           ELSE GetResult("Serialization", <<>>, "scan", reads2, TRUE)

\* the loop of SSTable::get, with the reader at byte offset position
RECURSIVE ScanLoop(_, _, _, _, _, _)
ScanLoop(file, index, index_pos, position, search_key, reads) ==
    IF index_pos + 1 < Len(index) /\ position >= IndexAt(index, index_pos + 1).position
    THEN GetResult("None", <<>>, "scan", reads, FALSE)
    ELSE LET key == DeI32(file, position)
             reads2 == Append(reads, position)
         IN  IF ~key.ok THEN GetResult("None", <<>>, "scan", reads2, TRUE)
             ELSE LET value == DeString(file, key.next)
                  IN  IF key.val = search_key
                      THEN IF value.ok
                           THEN GetResult("Some", value.val, "scan", reads2, FALSE)
                           ELSE GetResult("None", <<>>, "scan", reads2, TRUE)
                      ELSE IF key.val > search_key
                      THEN GetResult("None", <<>>, "scan", reads2, FALSE)
                      ELSE IF value.ok
                           THEN ScanLoop(file, index, index_pos, value.next, search_key, reads2)
                           ELSE GetResult("None", <<>>, "scan", reads2, TRUE)

\* SSTable::get taking insertion point 0 for a hit on the first index entry:
\* it returns the value of the first record
SSTableGetFirstOnMiss(table, dsk, search_key) ==
    LET file == dsk[table.path]
        entry_count == DeU64(file, 0)
        found == BinarySearch(table.index, search_key, 0, Len(table.index))
        hit == found.found \/ (found.pos = 0 /\ table.index # <<>>)
    IN  IF file = NoFile THEN GetResult("IO", <<>>, "none", <<>>, FALSE)
        ELSE IF ~entry_count.ok THEN GetResult("Serialization", <<>>, "none", <<>>, FALSE)
        ELSE IF hit
        THEN LET position == IndexAt(table.index, found.pos).position
                 key == DeI32(file, position)
                 value == DeString(file, key.next)
             IN  IF key.ok /\ value.ok
                 THEN GetResult("Some", value.val, "exact", <<>>, FALSE)
                 ELSE GetResult("Serialization", <<>>, "exact", <<>>, FALSE)
        ELSE IF found.pos = 0
        THEN ScanLoop(file, table.index, 0, entry_count.next, search_key, <<>>)
        ELSE ScanLoop(file, table.index, found.pos - 1,
                      IndexAt(table.index, found.pos - 1).position, search_key, <<>>)

\* SSTable::get seeking to self.index[pos] where that entry exists, the
\* entry after the key, instead of self.index[pos - 1]
SSTableGetNextEntry(table, dsk, search_key) ==
    LET file == dsk[table.path]
        entry_count == DeU64(file, 0)
        found == BinarySearch(table.index, search_key, 0, Len(table.index))
        at == IF found.pos < Len(table.index) THEN found.pos ELSE found.pos - 1
    IN  IF file = NoFile THEN GetResult("IO", <<>>, "none", <<>>, FALSE)
        ELSE IF ~entry_count.ok THEN GetResult("Serialization", <<>>, "none", <<>>, FALSE)
        ELSE IF found.found
        THEN LET position == IndexAt(table.index, found.pos).position
                 key == DeI32(file, position)
                 value == DeString(file, key.next)
             IN  IF key.ok /\ value.ok
                 THEN GetResult("Some", value.val, "exact", <<>>, FALSE)
                 ELSE GetResult("Serialization", <<>>, "exact", <<>>, FALSE)
        ELSE IF found.pos = 0
        THEN ScanLoop(file, table.index, 0, entry_count.next, search_key, <<>>)
        ELSE ScanLoop(file, table.index, at,
                      IndexAt(table.index, at).position, search_key, <<>>)

\* SSTable::get(search_key) of table on disk dsk
SSTableGet(table, dsk, search_key) ==
    LET file == dsk[table.path]
        entry_count == DeU64(file, 0)
        found == BinarySearch(table.index, search_key, 0, Len(table.index))
    IN  IF file = NoFile THEN GetResult("IO", <<>>, "none", <<>>, FALSE)
        ELSE IF ~entry_count.ok THEN GetResult("Serialization", <<>>, "none", <<>>, FALSE)
        ELSE IF found.found
        THEN LET position == IndexAt(table.index, found.pos).position
                 key == DeI32(file, position)
                 value == DeString(file, key.next)
             IN  IF key.ok /\ value.ok
                 THEN GetResult("Some", value.val, "exact", <<>>, FALSE)
                 ELSE GetResult("Serialization", <<>>, "exact", <<>>, FALSE)
        ELSE IF found.pos = 0
        THEN ScanLoop(file, table.index, 0, entry_count.next, search_key, <<>>)
        ELSE ScanLoop(file, table.index, found.pos - 1,
                      IndexAt(table.index, found.pos - 1).position, search_key, <<>>)

(* ------------------------------ LSMTree ------------------------------- *)
\* decimal digits of n, most significant first
RECURSIVE Digits(_)
Digits(n) == IF n < 10 THEN <<n>> ELSE Append(Digits(n \div 10), n % 10)

RECURSIVE ZeroPad(_, _)
ZeroPad(s, w) == IF Len(s) >= w THEN s ELSE ZeroPad(<<0>> \o s, w)

\* format!("{}/sstable_{:06}.db", data_dir, sstable_id)
SSTablePath(data_dir, id) == <<data_dir>> \o ZeroPad(Digits(id), ID_WIDTH)

\* a loop over self.sstables.iter() without rev(): the oldest run is asked
\* first (i counts down the runs still to ask)
RECURSIVE GetFromSSTablesOldestFirst(_, _, _, _, _)
GetFromSSTablesOldestFirst(tables, dsk, i, key, consulted) ==
    IF i < 1 THEN [kind |-> "None", value |-> <<>>, consulted |-> consulted]
    ELSE LET at == Len(tables) + 1 - i
             r == SSTableGet(tables[at], dsk, key)
             c == Append(consulted, at)
         IN  IF r.kind \in {"IO", "Serialization"}
             THEN [kind |-> r.kind, value |-> <<>>, consulted |-> c]
             ELSE IF r.kind = "Some"
             THEN [kind |-> "Some", value |-> r.value, consulted |-> c]
             ELSE GetFromSSTablesOldestFirst(tables, dsk, i - 1, key, c)

\* the loop of LSMTree::get over self.sstables.iter().rev(): i is the 1-based
\* place of the next run to ask; consulted lists the places asked
RECURSIVE GetFromSSTables(_, _, _, _, _)
GetFromSSTables(tables, dsk, i, key, consulted) ==
    IF i < 1 THEN [kind |-> "None", value |-> <<>>, consulted |-> consulted]
    ELSE LET r == SSTableGet(tables[i], dsk, key)
             c == Append(consulted, i)
         IN  IF r.kind \in {"IO", "Serialization"}
             THEN [kind |-> r.kind, value |-> <<>>, consulted |-> c]
             ELSE IF r.kind = "Some"
             THEN [kind |-> "Some", value |-> r.value, consulted |-> c]
             ELSE GetFromSSTables(tables, dsk, i - 1, key, c)

\* LSMTree::get(key) of a store with this memtable and run list
LSMTreeGet(mt, tables, dsk, key) ==
    LET m == MemTableGet(mt, key)
    IN  IF m.has THEN [kind |-> "Some", value |-> m.value, consulted |-> <<>>]
        ELSE GetFromSSTables(tables, dsk, Len(tables), key, <<>>)

\* the disk after LSMTree::get has asked the runs at the places consulted:
\* each SSTable::get opens the file of its run
RECURSIVE OpenAll(_, _, _)
OpenAll(dsk, tables, consulted) ==
    IF consulted = <<>> THEN dsk
    ELSE OpenAll(FileOpen(dsk, tables[Head(consulted)].path), tables, Tail(consulted))

\* a with_config that rediscovers the files sstable_000000.db, ... of the
\* data_dir and resumes the ids after them
LSMTreeWithConfigReload(cfg, dsk) ==
    LET n == Cardinality({i \in 1..MaxRuns :
                 \A j \in 0..(i - 1) : dsk[SSTablePath(cfg.data_dir, j)] # NoFile})
    IN  [memtable |-> MemTableNew,
         sstables |-> [i \in 1..n |-> [path |-> SSTablePath(cfg.data_dir, i - 1),
                                       index |-> <<>>]],
         sstable_id |-> n, config |-> cfg]

\* LSMTree::with_config(config): the fields of the new store
LSMTreeWithConfig(cfg, dsk) ==
    [memtable |-> MemTableNew, sstables |-> <<>>, sstable_id |-> 0, config |-> cfg]

\* a flush_memtable without self.sstable_id += 1: every run is built at the
\* path of the same id
LSMTreeFlushMemtableSameId(st, dsk, fault) ==
    LET old_memtable == st.memtable
        sstable_path == SSTablePath(st.config.data_dir, st.sstable_id)
        built == SSTableFromMemtable(old_memtable, sstable_path, dsk, fault)
    IN  IF built.kind # "Ok"
        THEN [kind |-> built.kind, disk |-> built.disk,
              st |-> [st EXCEPT !.memtable = MemTableNew]]
        ELSE [kind |-> "Ok", disk |-> built.disk,
              st |-> [st EXCEPT !.memtable = MemTableNew,
                                !.sstables = Append(st.sstables, built.table)]]

\* a flush_memtable that takes the id before building: self.sstable_id += 1
\* comes first, so a failed build has consumed an id
LSMTreeFlushMemtableIdFirst(st, dsk, fault) ==
    LET old_memtable == st.memtable
        sstable_path == SSTablePath(st.config.data_dir, st.sstable_id)
        built == SSTableFromMemtable(old_memtable, sstable_path, dsk, fault)
    IN  IF built.kind # "Ok"
        THEN [kind |-> built.kind, disk |-> built.disk,
              st |-> [st EXCEPT !.memtable = MemTableNew,
                                !.sstable_id = st.sstable_id + 1]]
        ELSE [kind |-> "Ok", disk |-> built.disk,
              st |-> [st EXCEPT !.memtable = MemTableNew,
                                !.sstables = Append(st.sstables, built.table),
                                !.sstable_id = st.sstable_id + 1]]

\* a flush_memtable that builds the run from self.memtable after the swap,
\* the new empty buffer, instead of from old_memtable
LSMTreeFlushMemtableAfterSwap(st, dsk, fault) ==
    LET sstable_path == SSTablePath(st.config.data_dir, st.sstable_id)
        built == SSTableFromMemtable(MemTableNew, sstable_path, dsk, fault)
    IN  IF built.kind # "Ok"
        THEN [kind |-> built.kind, disk |-> built.disk,
              st |-> [st EXCEPT !.memtable = MemTableNew]]
        ELSE [kind |-> "Ok", disk |-> built.disk,
              st |-> [st EXCEPT !.memtable = MemTableNew,
                                !.sstables = Append(st.sstables, built.table),
                                !.sstable_id = st.sstable_id + 1]]

\* LSMTree::flush_memtable of store st on disk dsk under a fault
LSMTreeFlushMemtable(st, dsk, fault) ==
    LET old_memtable == st.memtable
        sstable_path == SSTablePath(st.config.data_dir, st.sstable_id)
        built == SSTableFromMemtable(old_memtable, sstable_path, dsk, fault)
    IN  IF built.kind # "Ok"
        THEN [kind |-> built.kind, disk |-> built.disk,
              st |-> [st EXCEPT !.memtable = MemTableNew]]
        ELSE [kind |-> "Ok", disk |-> built.disk,
              st |-> [st EXCEPT !.memtable = MemTableNew,
                                !.sstables = Append(st.sstables, built.table),
                                !.sstable_id = st.sstable_id + 1]]

\* an insert that drops the result of put instead of returning its error:
\* the threshold is tested, and the buffer flushed, after a failed put too
LSMTreeInsertIgnorePutError(st, dsk, key, value, fault) ==
    LET p == MemTablePut(st.memtable, key, value)
        st1 == [st EXCEPT !.memtable = p.mt]
    IN  IF MemTableSize(p.mt) >= st.config.memtable_size_threshold
        THEN LET f == LSMTreeFlushMemtable(st1, dsk, fault)
             IN  [kind |-> f.kind, st |-> f.st, disk |-> f.disk, put_ok |-> p.ok,
                  put |-> p.ret, size |-> MemTableSize(p.mt), flush |-> TRUE]
        ELSE [kind |-> "Ok", st |-> st1, disk |-> dsk, put_ok |-> p.ok,
              put |-> p.ret, size |-> MemTableSize(p.mt), flush |-> FALSE]

\* an insert that tests the threshold before its put: it flushes what the
\* buffer held on entry, then puts into the buffer that is live
LSMTreeInsertFlushFirst(st, dsk, key, value, fault) ==
    LET flush == MemTableSize(st.memtable) >= st.config.memtable_size_threshold
        f == IF flush THEN LSMTreeFlushMemtable(st, dsk, fault)
             ELSE [kind |-> "Ok", disk |-> dsk, st |-> st]
        p == MemTablePut(f.st.memtable, key, value)
        st1 == [f.st EXCEPT !.memtable = p.mt]
    IN  IF f.kind # "Ok"
        THEN [kind |-> f.kind, st |-> f.st, disk |-> f.disk, put_ok |-> FALSE,
              put |-> -1, size |-> MemTableSize(f.st.memtable), flush |-> TRUE]
        ELSE IF ~p.ok
        THEN [kind |-> "Serialization", st |-> st1, disk |-> f.disk, put_ok |-> FALSE,
              put |-> -1, size |-> MemTableSize(p.mt), flush |-> flush]
        ELSE [kind |-> "Ok", st |-> st1, disk |-> f.disk, put_ok |-> TRUE,
              put |-> p.ret, size |-> MemTableSize(p.mt), flush |-> flush]

\* an insert that flushes only when the counter is above the threshold
LSMTreeInsertAbove(st, dsk, key, value, fault) ==
    LET p == MemTablePut(st.memtable, key, value)
        st1 == [st EXCEPT !.memtable = p.mt]
    IN  IF ~p.ok
        THEN [kind |-> "Serialization", st |-> st1, disk |-> dsk, put_ok |-> FALSE,
              put |-> -1, size |-> MemTableSize(p.mt), flush |-> FALSE]
        ELSE IF MemTableSize(p.mt) > st.config.memtable_size_threshold
        THEN LET f == LSMTreeFlushMemtable(st1, dsk, fault)
             IN  [kind |-> f.kind, st |-> f.st, disk |-> f.disk, put_ok |-> TRUE,
                  put |-> p.ret, size |-> MemTableSize(p.mt), flush |-> TRUE]
        ELSE [kind |-> "Ok", st |-> st1, disk |-> dsk, put_ok |-> TRUE,
              put |-> p.ret, size |-> MemTableSize(p.mt), flush |-> FALSE]

\* LSMTree::insert(key, value) of store st on disk dsk; fault is what the
\* flush meets if there is one.  kind is "Ok", "Serialization" or "IO";
\* put_ok says MemTable::put returned Ok, put is what it returned, size the
\* counter read after the put, flush says whether flush_memtable was called;
\* the store keeps the memtable as put left it, also when put failed
LSMTreeInsert(st, dsk, key, value, fault) ==
    LET p == MemTablePut(st.memtable, key, value)
        st1 == [st EXCEPT !.memtable = p.mt]
    IN  IF ~p.ok
        THEN [kind |-> "Serialization", st |-> st1, disk |-> dsk, put_ok |-> FALSE,
              put |-> -1, size |-> MemTableSize(p.mt), flush |-> FALSE]
        ELSE IF MemTableSize(p.mt) >= st.config.memtable_size_threshold
        THEN LET f == LSMTreeFlushMemtable(st1, dsk, fault)
             IN  [kind |-> f.kind, st |-> f.st, disk |-> f.disk, put_ok |-> TRUE,
                  put |-> p.ret, size |-> MemTableSize(p.mt), flush |-> TRUE]
        ELSE [kind |-> "Ok", st |-> st1, disk |-> dsk, put_ok |-> TRUE,
              put |-> p.ret, size |-> MemTableSize(p.mt), flush |-> FALSE]

(* --------------------------- the store, running ----------------------- *)
VARIABLES
    memtable,       \* LSMTree.memtable
    sstables,       \* LSMTree.sstables, oldest first
    sstable_id,     \* LSMTree.sstable_id
    config,         \* LSMTree.config
    disk,           \* the files of data_dir: path -> bytes, or NoFile
    last,           \* the last call made and what it returned
    opens,          \* how many stores have been opened on data_dir
    ref,            \* a plain key -> value map fed the inserts of this store that returned Ok
    put_sum,        \* the sum of what put returned on the live MemTable instance
    flushed,        \* for each run of sstables, the entries it was built from
    run_paths       \* the paths at which a run has been created, by any store

vars == <<memtable, sstables, sstable_id, config, disk, last, opens,
          ref, put_sum, flushed, run_paths>>

Keys == 1..MaxKey
Values == {<<97>>, <<98, 98>>}
NoValue == <<-1>>
Thresholds == {0, MaxThreshold}
Paths == {SSTablePath(DataDir, i) : i \in 0..MaxRuns}
\* the keys asked of get: those inserted, and one below and one above them
ProbeKeys == 0..(MaxKey + 1)

Store == [memtable |-> memtable, sstables |-> sstables,
          sstable_id |-> sstable_id, config |-> config]

Call(op, key, value, kind, ret, flush, put, size, consulted) ==
    [op |-> op, key |-> key, value |-> value, kind |-> kind, ret |-> ret,
     flush |-> flush, put |-> put, size |-> size, consulted |-> consulted]

\* LSMTree::with_config(config) on the data_dir as it is
OpenStore(threshold) ==
    LET st == LSMTreeWithConfig([memtable_size_threshold |-> threshold,
                                 data_dir |-> DataDir], disk)
    IN  /\ memtable' = st.memtable
        /\ sstables' = st.sstables
        /\ sstable_id' = st.sstable_id
        /\ config' = st.config
        /\ last' = Call("open", 0, <<>>, "Ok", <<>>, FALSE, 0, 0, <<>>)
        /\ ref' = [k \in Keys |-> NoValue]
        /\ put_sum' = 0
        /\ flushed' = <<>>

Init ==
    /\ disk = [p \in Paths |-> NoFile]
    /\ run_paths = {}
    /\ opens = 1
    /\ \E t \in Thresholds :
         LET st == LSMTreeWithConfig([memtable_size_threshold |-> t,
                                      data_dir |-> DataDir], disk)
         IN  /\ memtable = st.memtable
             /\ sstables = st.sstables
             /\ sstable_id = st.sstable_id
             /\ config = st.config
    /\ last = Call("open", 0, <<>>, "Ok", <<>>, FALSE, 0, 0, <<>>)
    /\ ref = [k \in Keys |-> NoValue]
    /\ put_sum = 0
    /\ flushed = <<>>

\* the process ends and a new store is opened on the same data_dir
Open(threshold) ==
    /\ opens < MaxOpens
    /\ opens' = opens + 1
    /\ OpenStore(threshold)
    /\ UNCHANGED <<disk, run_paths>>

\* lsm.insert(key, value); fault is what the build meets if the call flushes
Insert(key, value, fault) ==
    LET r == LSMTreeInsert(Store, disk, key, value, fault)
        built == r.flush /\ r.kind = "Ok"
    IN  /\ sstable_id < MaxRuns
        /\ fault # NoFault => r.flush
        /\ memtable' = r.st.memtable
        /\ sstables' = r.st.sstables
        /\ sstable_id' = r.st.sstable_id
        /\ config' = r.st.config
        /\ disk' = r.disk
        /\ last' = Call("insert", key, value, r.kind, <<>>, r.flush, r.put, r.size, <<>>)
        /\ ref' = IF r.kind = "Ok" THEN [ref EXCEPT ![key] = value] ELSE ref
        /\ put_sum' = IF r.flush THEN 0 ELSE IF r.put_ok THEN put_sum + r.put ELSE put_sum
        /\ flushed' = IF built
                      THEN Append(flushed, MemTablePut(memtable, key, value).mt.data)
                      ELSE flushed
        /\ run_paths' = IF built
                        THEN run_paths \cup {SSTablePath(config.data_dir, sstable_id)}
                        ELSE run_paths
        /\ UNCHANGED opens

\* lsm.get(&key)
Get(key) ==
    LET r == LSMTreeGet(memtable, sstables, disk, key)
    IN  /\ last' = Call("get", key, <<>>, r.kind, r.value, FALSE, 0, 0, r.consulted)
        /\ disk' = OpenAll(disk, sstables, r.consulted)
        /\ UNCHANGED <<memtable, sstables, sstable_id, config, opens,
                       ref, put_sum, flushed, run_paths>>

Next ==
    \/ \E k \in Keys, v \in Values \cup {Unencodable} :
         \E f \in BuildFaults : Insert(k, v, f)
    \/ \E k \in ProbeKeys : Get(k)

Spec == Init /\ [][Next]_vars

\* stores opened one after another on the same data_dir; every build succeeds
\* here (Spec covers the builds that fail)
NextReopen ==
    \/ \E k \in Keys, v \in Values : Insert(k, v, NoFault)
    \/ \E k \in ProbeKeys : Get(k)
    \/ \E t \in Thresholds : Open(t)

SpecReopen == Init /\ [][NextReopen]_vars

(* ------------------------- a MemTable on its own ---------------------- *)
\* The MemTable tests of memtable.rs: puts in any order, then iteration.
MemKeys == (0 - 1)..MaxMemKey

InitMemTable ==
    /\ memtable = MemTableNew
    /\ sstables = <<>>
    /\ sstable_id = 0
    /\ config = [memtable_size_threshold |-> MaxThreshold, data_dir |-> DataDir]
    /\ disk = [p \in Paths |-> NoFile]
    /\ last = Call("new", 0, <<>>, "Ok", <<>>, FALSE, 0, 0, <<>>)
    /\ opens = 1
    /\ ref = [k \in MemKeys |-> NoValue]
    /\ put_sum = 0
    /\ flushed = <<>>
    /\ run_paths = {}

\* memtable.put(key, value)
Put(key, value) ==
    LET p == MemTablePut(memtable, key, value)
    IN  /\ memtable.size_bytes < MaxPutBytes
        /\ memtable' = p.mt
        /\ last' = Call("put", key, value, IF p.ok THEN "Ok" ELSE "Serialization",
                        <<>>, FALSE, p.ret, MemTableSize(p.mt), <<>>)
        /\ ref' = IF p.ok THEN [ref EXCEPT ![key] = value] ELSE ref
        /\ put_sum' = IF p.ok THEN put_sum + p.ret ELSE put_sum
        /\ UNCHANGED <<sstables, sstable_id, config, disk, opens, flushed, run_paths>>

\* memtable.iter().collect()
Iterate ==
    /\ last' = Call("iter", 0, <<>>, "Ok", MemTableIter(memtable), FALSE, 0, 0, <<>>)
    /\ UNCHANGED <<memtable, sstables, sstable_id, config, disk, opens,
                   ref, put_sum, flushed, run_paths>>

NextMemTable ==
    \/ \E k \in MemKeys, v \in Values \cup {Unencodable} : Put(k, v)
    \/ Iterate

SpecMemTable == InitMemTable /\ [][NextMemTable]_vars

(* ----------------------- one run, built and read ---------------------- *)
\* The SSTable tests of sstable.rs: a MemTable is filled, a run is built
\* from it with SSTable::from_memtable, and keys are looked up in the run.

\* the value put for key k: "", "b" or "cc"
RunValue(k) == [i \in 1..(k % 3) |-> 97 + (k % 3)]

\* memtable.put(key, RunValue(key)) for each key of keys, in that order
RECURSIVE PutAll(_, _)
PutAll(mt, keys) ==
    IF keys = <<>> THEN mt
    ELSE PutAll(MemTablePut(mt, Head(keys), RunValue(Head(keys))).mt, Tail(keys))

\* n keys put in descending order: stride - 2, 2 * stride - 2, ..., n * stride - 2
RunKeys(n, stride) == [i \in 1..n |-> (n + 1 - i) * stride - 2]
RunMemTables == {PutAll(MemTableNew, RunKeys(n, stride)) : n \in 0..MaxRunKey, stride \in {1, 2}}
RunProbes == (0 - 3)..(2 * MaxRunKey)
RunPath == SSTablePath(DataDir, 0)

RunCall(op, key, r) ==
    [op |-> op, key |-> key, value |-> <<>>, kind |-> r.kind, ret |-> r.value,
     flush |-> FALSE, put |-> 0, size |-> 0, consulted |-> <<>>,
     via |-> r.via, reads |-> r.reads, failed |-> r.failed]

InitRun ==
    /\ memtable \in RunMemTables
    /\ sstables = <<>>
    /\ sstable_id = 0
    /\ config = [memtable_size_threshold |-> MaxThreshold, data_dir |-> DataDir]
    /\ disk = [p \in Paths |-> NoFile]
    /\ last = Call("new", 0, <<>>, "Ok", <<>>, FALSE, 0, 0, <<>>)
    /\ opens = 1
    /\ ref = [k \in Keys |-> NoValue]
    /\ put_sum = memtable.size_bytes
    /\ flushed = <<>>
    /\ run_paths = {}

\* SSTable::from_memtable(&memtable, path)
BuildRun(fault) ==
    LET built == SSTableFromMemtable(memtable, RunPath, disk, fault)
    IN  /\ sstables = <<>>
        /\ disk' = built.disk
        /\ sstables' = IF built.kind = "Ok" THEN <<built.table>> ELSE sstables
        /\ flushed' = IF built.kind = "Ok" THEN <<memtable.data>> ELSE flushed
        /\ run_paths' = IF built.kind = "Ok" THEN {RunPath} ELSE run_paths
        /\ last' = Call("from_memtable", 0, <<>>, built.kind, <<>>, FALSE, 0, 0, <<>>)
        /\ UNCHANGED <<memtable, sstable_id, config, opens, ref, put_sum>>

\* sstable.get(&key)
LookupRun(key) ==
    /\ sstables # <<>>
    /\ last' = RunCall("sstable_get", key, SSTableGet(sstables[1], disk, key))
    /\ disk' = FileOpen(disk, sstables[1].path)
    /\ UNCHANGED <<memtable, sstables, sstable_id, config, opens,
                   ref, put_sum, flushed, run_paths>>

NextRun ==
    \/ \E f \in BuildFaults : BuildRun(f)
    \/ \E k \in RunProbes : LookupRun(k)

SpecRun == InitRun /\ [][NextRun]_vars

\* The same harness with the run's file damaged behind the SSTable's back:
\* cut short (a crash before the data reached the disk) or removed.
DenseMemTables == {PutAll(MemTableNew, RunKeys(n, 1)) : n \in 0..MaxDamageKey}

DamageProbes == (0 - 2)..(MaxDamageKey - 1)

InitDamage ==
    /\ InitRun
    /\ memtable \in DenseMemTables

\* the file of the run, complete until now, loses everything after its
\* first n bytes
TruncateFile(n) ==
    /\ sstables # <<>>
    /\ Len(disk[RunPath]) = U64_BYTES + memtable.size_bytes
    /\ n < Len(disk[RunPath])
    /\ disk' = [disk EXCEPT ![RunPath] = SubSeq(disk[RunPath], 1, n)]
    /\ last' = Call("truncate", n, <<>>, "Ok", <<>>, FALSE, 0, 0, <<>>)
    /\ UNCHANGED <<memtable, sstables, sstable_id, config, opens,
                   ref, put_sum, flushed, run_paths>>

\* the file of the run is removed
RemoveFile ==
    /\ sstables # <<>>
    /\ disk[RunPath] # NoFile
    /\ disk' = [disk EXCEPT ![RunPath] = NoFile]
    /\ last' = Call("remove", 0, <<>>, "Ok", <<>>, FALSE, 0, 0, <<>>)
    /\ UNCHANGED <<memtable, sstables, sstable_id, config, opens,
                   ref, put_sum, flushed, run_paths>>

NextDamage ==
    \/ \E f \in BuildFaults : BuildRun(f)
    \/ \E k \in DamageProbes : LookupRun(k)
    \/ \E n \in 0..(U64_BYTES + memtable.size_bytes - 1) : TruncateFile(n)
    \/ RemoveFile

SpecDamage == InitDamage /\ [][NextDamage]_vars

(* ------------------------------ claims -------------------------------- *)
\* whether a run built from these entries holds key k, and the value it holds
Holds(entries, k) == \E i \in 1..Len(entries) : entries[i].key = k
ValueIn(entries, k) == entries[CHOOSE i \in 1..Len(entries) : entries[i].key = k].value
Max(S) == CHOOSE x \in S : \A y \in S : y <= x
\* <<hi, hi - 1, ..., lo>>
Down(hi, lo) == [i \in 1..(hi - lo + 1) |-> hi + 1 - i]

StoreGet(k) == LSMTreeGet(memtable, sstables, disk, k)

\* C1: get(k) returns the value of the most recent insert of k that returned
\* Ok, and absence when there was none, as a plain key -> value map fed those
\* inserts would (the claim, read in its most lenient way: an insert that
\* returned an error is not counted)
C1_LastWriteWins ==
    \A k \in Keys :
        IF ref[k] = NoValue THEN StoreGet(k).kind = "None"
        ELSE StoreGet(k).kind = "Some" /\ StoreGet(k).value = ref[k]

\* C2: every key an insert has written (here: with insert returning Ok) is
\* still retrievable: get returns a value for it, never absence
C2_NoKeyLost ==
    \A k \in Keys : ref[k] # NoValue => StoreGet(k).kind = "Some"

\* C3: get(k) returns the buffer's value without asking any run when the
\* buffer holds k; else the value of the newest run that holds k, asking the
\* runs newest first and stopping there; and Ok(None), having asked every
\* run, exactly when neither the buffer nor a run holds k
C3_ShadowingOrder ==
    \A k \in ProbeKeys :
        LET g == StoreGet(k)
            n == Len(sstables)
            holders == {i \in 1..n : Holds(flushed[i], k)}
        IN  IF Holds(memtable.data, k)
            THEN g = [kind |-> "Some", value |-> ValueIn(memtable.data, k),
                      consulted |-> <<>>]
            ELSE IF holders # {}
            THEN g = [kind |-> "Some", value |-> ValueIn(flushed[Max(holders)], k),
                      consulted |-> Down(n, Max(holders))]
            ELSE g = [kind |-> "None", value |-> <<>>, consulted |-> Down(n, 1)]

\* a get answered by a run while an older run holds another value for the key
C3_Witness ==
    /\ last.op = "get" /\ last.kind = "Some" /\ last.consulted # <<>>
    /\ \E i \in 1..Len(flushed) :
          /\ i < last.consulted[Len(last.consulted)]
          /\ Holds(flushed[i], last.key)
          /\ ValueIn(flushed[i], last.key) # last.ret

\* C5: insert flushes exactly when the size counter read after its put is at
\* least the threshold: then the buffer is replaced and, unless the build
\* fails, one run is added; below the threshold nothing but the buffer changes
C5_FlushTrigger ==
    [][ last'.op = "insert" =>
          IF last'.kind = "Serialization"
          THEN ~last'.flush /\ memtable' = memtable /\ sstables' = sstables /\ disk' = disk
          ELSE IF last'.size >= config.memtable_size_threshold
          THEN /\ last'.flush
               /\ memtable' = MemTableNew
               /\ last'.kind = "Ok" =>
                     Len(sstables') = Len(sstables) + 1 /\ sstable_id' = sstable_id + 1
          ELSE /\ ~last'.flush
               /\ memtable'.size_bytes = last'.size
               /\ sstables' = sstables /\ sstable_id' = sstable_id /\ disk' = disk
      ]_vars

\* an insert that flushed with the counter exactly at a threshold above 0
C5_Witness ==
    /\ last.op = "insert" /\ last.flush /\ last.kind = "Ok"
    /\ config.memtable_size_threshold > 0
    /\ last.size = config.memtable_size_threshold

\* C6: the size counter of a buffer instance is the sum of what its puts
\* returned, each the serialized size of that call's key plus value, an
\* overwrite counted like any put; so a put never lowers it
C6_SizeAccounting ==
    [][ /\ memtable.size_bytes = put_sum
        /\ memtable'.size_bytes = put_sum'
        /\ (last'.op = "insert" /\ last'.kind # "Serialization") =>
              /\ last'.put = KeySerializedSize(last'.key) + ValueSerializedSize(last'.value)
              /\ last'.size = put_sum + last'.put
              /\ last'.size >= memtable.size_bytes
      ]_vars

\* a put that overwrote: the counter counts two puts, the buffer holds one entry
C6_Witness ==
    /\ last.op = "insert" /\ last.flush /\ last.kind = "Ok"
    /\ last.size > last.put
    /\ Len(flushed[Len(flushed)]) = 1

\* offset of the first byte after the record of key k in the file of a run
\* built from entries: the header and every record up to k's
RECURSIVE RecordEnd(_, _)
RecordEnd(entries, k) ==
    IF entries = <<>> \/ Head(entries).key > k THEN U64_BYTES
    ELSE KeySerializedSize(Head(entries).key) + ValueSerializedSize(Head(entries).value)
         + RecordEnd(Tail(entries), k)

\* C4: a lookup in a run built from a buffer of N >= 0 keys returns, for a
\* key of the buffer, the value the buffer held for it, and absence for any
\* other key: below the smallest, between two stored keys, above the largest.
C4_RunLookupExact ==
    last.op = "sstable_get" =>
        IF Holds(memtable.data, last.key)
        THEN last.kind = "Some" /\ last.ret = ValueIn(memtable.data, last.key)
        ELSE last.kind = "None"

\* a run of more than INDEX_INTERVAL records was asked for an absent key that
\* lies between two stored keys of its last index bracket
C4_Witness ==
    /\ last.op = "sstable_get"
    /\ last.kind = "None"
    /\ Len(sstables[1].index) = 2
    /\ last.key > sstables[1].index[2].key
    /\ \E i \in 1..Len(memtable.data) : memtable.data[i].key > last.key

\* C8: a lookup that cannot open the file of the run returns an IO error; a
\* lookup whose scan runs into the end of the file or into bytes that do not
\* deserialize returns absence, not an error: from a file cut short, a scan
\* returns the value of a key exactly when the records up to the key's are
\* all in the file, and absence otherwise.
C8_LookupFailurePolicy ==
    last.op = "sstable_get" =>
        LET file == disk[RunPath]
            whole == /\ Holds(memtable.data, last.key)
                     /\ RecordEnd(memtable.data, last.key) <= Len(file)
        IN  /\ file = NoFile <=> last.kind = "IO"
            /\ last.failed => last.kind = "None"
            /\ last.via = "scan" =>
                   IF whole
                   THEN last.kind = "Some" /\ last.ret = ValueIn(memtable.data, last.key)
                   ELSE last.kind = "None"

\* a key of the run was reported absent because the file ends inside its value
C8_Witness ==
    /\ last.op = "sstable_get"
    /\ last.failed
    /\ last.kind = "None"
    /\ Holds(memtable.data, last.key)
    /\ RecordEnd(memtable.data, last.key) > Len(disk[RunPath])
    /\ RecordEnd(memtable.data, last.key) - Len(disk[RunPath])
           < ValueSerializedSize(ValueIn(memtable.data, last.key))

\* C9: a run built from a buffer of zero records returns absence, without an
\* error, for every key.
C9_EmptyRunLookup ==
    (sstables # <<>> /\ memtable.data = <<>>) =>
        /\ sstables[1].index = <<>>
        /\ \A k \in RunProbes : SSTableGet(sstables[1], disk, k).kind = "None"

\* a run of zero records was asked for a key
C9_Witness ==
    /\ last.op = "sstable_get"
    /\ memtable.data = <<>>
    /\ disk[RunPath] = SerU64(0)
    /\ last.kind = "None"

\* the file at path p holds a record of key k (a scan of the whole file
\* finds it)
FileHolds(p, k) ==
    /\ disk[p] # NoFile
    /\ SSTableGet([path |-> p, index |-> <<>>], disk, k).kind = "Some"

\* C7: once a run has been created, no later step modifies, truncates,
\* overwrites or deletes its file.
C7_RunsWriteOnce == [][\A p \in run_paths : disk'[p] = disk[p]]_vars

C11_ReadsNoSideEffects ==
    [][last'.op = "get" =>
           /\ memtable' = memtable
           /\ sstables' = sstables
           /\ sstable_id' = sstable_id
           /\ disk' = disk]_vars

\* a get missed the memtable and read the key's value from the file of the
\* newest of two runs
C11_Witness ==
    /\ last.op = "get"
    /\ last.kind = "Some"
    /\ last.consulted = <<2>>
    /\ disk[sstables[2].path] # NoFile

\* the records of a file, read one after another from byte offset pos to the
\* end of the file; a record that does not deserialize ends the sequence
\* with an entry whose value is NoValue
RECURSIVE DecodeRecords(_, _)
DecodeRecords(file, pos) ==
    IF pos >= Len(file) THEN <<>>
    ELSE LET key == DeI32(file, pos)
             value == DeString(file, key.next)
         IN  IF ~key.ok \/ ~value.ok THEN <<[key |-> 0, value |-> NoValue]>>
             ELSE <<[key |-> key.val, value |-> value.val]>>
                  \o DecodeRecords(file, value.next)

Pairs(entries) == {<<entries[i].key, entries[i].value>> : i \in 1..Len(entries)}

\* C12: an insert whose flush succeeds leaves a new empty memtable with size
\* counter 0; sstables is the list before with one run appended, whose path
\* is the one of sstable_id before the flush and whose file holds exactly the
\* records of the displaced buffer (those of the memtable before the insert,
\* with the inserted key's value replaced); sstable_id grows by exactly 1.
C12_FlushEffect ==
    [][(last'.op = "insert" /\ last'.flush /\ last'.kind = "Ok") =>
           LET path == SSTablePath(config.data_dir, sstable_id)
               displaced == {p \in Pairs(memtable.data) : p[1] # last'.key}
                                \cup {<<last'.key, last'.value>>}
               file == disk'[path]
               records == DecodeRecords(file, U64_BYTES)
           IN  /\ memtable'.data = <<>>
               /\ memtable'.size_bytes = 0
               /\ Len(sstables') = Len(sstables) + 1
               /\ SubSeq(sstables', 1, Len(sstables)) = sstables
               /\ sstables'[Len(sstables')].path = path
               /\ file # NoFile
               /\ DeU64(file, 0).ok /\ DeU64(file, 0).val = Len(records)
               /\ Len(records) = Cardinality(displaced)
               /\ Pairs(records) = displaced
               /\ sstable_id' = sstable_id + 1]_vars

\* a second run was flushed from a buffer whose one key had been put twice
C12_Witness ==
    /\ last.op = "insert" /\ last.flush /\ last.kind = "Ok"
    /\ Len(sstables) = 2
    /\ last.size > last.put
    /\ DecodeRecords(disk[sstables[2].path], U64_BYTES)
           = <<[key |-> last.key, value |-> last.value]>>

\* the byte offsets at which the records of a file start, from offset pos to
\* the end of the file
RECURSIVE RecordStarts(_, _)
RecordStarts(file, pos) ==
    IF pos >= Len(file) THEN <<>>
    ELSE LET key == DeI32(file, pos)
             value == DeString(file, key.next)
         IN  IF ~key.ok \/ ~value.ok THEN <<pos>>
             ELSE <<pos>> \o RecordStarts(file, value.next)

\* C13: the index of a built run has one entry for each record whose
\* zero-based number is a multiple of 10, ceil(N / 10) entries for N records;
\* the offset of an entry is where that record's key bytes start; keys and
\* offsets of the index increase strictly; and every record that starts
\* between the offsets of entries i and i + 1 has a key >= the key of entry i
\* and < the key of entry i + 1.
C13_SparseIndex ==
    sstables # <<>> =>
        LET index == sstables[1].index
            file == disk[RunPath]
            starts == RecordStarts(file, U64_BYTES)
            N == Len(starts)
            KeyAt(pos) == DeI32(file, pos).val
        IN  /\ N = Len(memtable.data)
            /\ Len(index) = (N + 9) \div 10
            /\ \A j \in 1..Len(index) :
                   /\ index[j].position = starts[10 * (j - 1) + 1]
                   /\ index[j].key = memtable.data[10 * (j - 1) + 1].key
                   /\ DeI32(file, index[j].position).ok
                   /\ KeyAt(index[j].position) = index[j].key
            /\ \A j \in 1..(Len(index) - 1) :
                   /\ index[j].key < index[j + 1].key
                   /\ index[j].position < index[j + 1].position
                   /\ \A r \in 1..N :
                          (starts[r] >= index[j].position
                              /\ starts[r] < index[j + 1].position) =>
                          (KeyAt(starts[r]) >= index[j].key
                              /\ KeyAt(starts[r]) < index[j + 1].key)

\* a run of more than 20 records, with three index entries, was built and
\* read
C13_Witness ==
    /\ sstables # <<>>
    /\ Len(sstables[1].index) = 3
    /\ Len(memtable.data) > 20
    /\ last.op = "sstable_get"

\* C14: when the index has an entry whose key is the search key, the key
\* stored in the file at that entry's offset is the search key, and the
\* lookup returns the value of that record without scanning.
C14_ExactIndexHit ==
    (last.op = "sstable_get"
        /\ \E j \in 1..Len(sstables[1].index) : sstables[1].index[j].key = last.key) =>
        LET index == sstables[1].index
            j == CHOOSE j \in 1..Len(index) : index[j].key = last.key
            key == DeI32(disk[RunPath], index[j].position)
            value == DeString(disk[RunPath], key.next)
        IN  /\ key.ok /\ key.val = last.key
            /\ last.via = "exact"
            /\ last.reads = <<>>
            /\ last.kind = "Some"
            /\ value.ok /\ last.ret = value.val
            /\ last.ret = ValueIn(memtable.data, last.key)

\* a lookup hit the third entry of an index, the record numbered 20
C14_Witness ==
    /\ last.op = "sstable_get"
    /\ last.via = "exact"
    /\ Len(sstables[1].index) = 3
    /\ sstables[1].index[3].key = last.key
    /\ last.ret # <<>>

\* C15: for a search key below the smallest indexed key of a run that is not
\* empty, the scan starts right after the header, which is the offset of the
\* first index entry, deserializes the key there and nothing further, and
\* the lookup returns absence.
C15_BelowIndex ==
    (last.op = "sstable_get"
        /\ sstables[1].index # <<>>
        /\ last.key < sstables[1].index[1].key) =>
        /\ last.via = "scan"
        /\ sstables[1].index[1].position = U64_BYTES
        /\ last.reads = <<U64_BYTES>>
        /\ ~last.failed
        /\ last.kind = "None"

\* a run with two or more index entries was asked for a key below its
\* smallest
C15_Witness ==
    /\ last.op = "sstable_get"
    /\ Len(sstables[1].index) >= 2
    /\ last.key < memtable.data[1].key
    /\ last.kind = "None"
    /\ last.reads # <<>>

\* C16: a lookup that scans with insertion point p >= 1 starts at the offset
\* of index[p - 1] and deserializes no record at or beyond the offset of
\* index[p] when that entry exists; and no lookup deserializes more than 10
\* record keys (a read that meets the end of the file yields no key).
C16_ScanConfined ==
    (last.op = "sstable_get" /\ last.via = "scan") =>
        LET index == sstables[1].index
            p == Cardinality({j \in 1..Len(index) : index[j].key < last.key})
            keys_read == Len(last.reads) - (IF last.failed THEN 1 ELSE 0)
        IN  /\ last.reads # <<>>
            /\ p >= 1 => last.reads[1] = index[p].position
            /\ p = 0 => last.reads[1] = U64_BYTES
            /\ (p >= 1 /\ p < Len(index)) =>
                   \A i \in 1..Len(last.reads) : last.reads[i] < index[p + 1].position
            /\ \A i \in 1..(Len(last.reads) - 1) : last.reads[i] < last.reads[i + 1]
            /\ keys_read <= 10

\* a scan of the middle bracket of three read all 10 of its keys and stopped
\* at the offset of the next index entry
C16_Witness ==
    /\ last.op = "sstable_get" /\ last.via = "scan"
    /\ Len(sstables[1].index) = 3
    /\ last.reads[1] = sstables[1].index[2].position
    /\ Len(last.reads) = 10
    /\ ~last.failed
    /\ last.kind = "None"

\* C17: iteration yields each key the buffer holds exactly once, in strictly
\* ascending order, each with the value of the last put of that key; an
\* empty buffer yields nothing.
C17_IterationOrder ==
    LET it == MemTableIter(memtable)
    IN  /\ \A i \in 1..(Len(it) - 1) : it[i].key < it[i + 1].key
        /\ {it[i].key : i \in 1..Len(it)} = {k \in MemKeys : ref[k] # NoValue}
        /\ \A i \in 1..Len(it) : it[i].value = ref[it[i].key]
        /\ last.op = "iter" => last.ret = it
        /\ last.op = "new" => it = <<>>

\* every key was put, one of them more than once, and the buffer iterated
C17_Witness ==
    /\ last.op = "iter"
    /\ Len(last.ret) = MaxMemKey + 2
    /\ memtable.size_bytes > RecordEnd(memtable.data, MaxMemKey) - U64_BYTES

\* C18: an insert whose flush fails to build the run returns the builder's
\* error, and sstables and sstable_id are what they were before the insert:
\* no run is appended, no id is consumed.
C18_FailedFlush ==
    [][(last'.op = "insert" /\ last'.flush /\ last'.kind # "Ok") =>
           /\ last'.kind = "IO"
           /\ sstables' = sstables
           /\ sstable_id' = sstable_id]_vars

\* with one run registered, a flush failed after its file had been created:
\* the file of the next id is on disk and no run stands for it
C18_Witness ==
    /\ last.op = "insert" /\ last.flush /\ last.kind = "IO"
    /\ Len(sstables) = 1 /\ sstable_id = 1
    /\ disk[SSTablePath(config.data_dir, 1)] # NoFile

\* C19: an insert whose put fails with an Encoding error leaves the
\* memtable's contents and size counter, sstables, sstable_id and the files
\* unchanged, and does not flush.
C19_FailedPut ==
    [][(last'.op = "insert" /\ last'.put < 0) =>
           /\ last'.kind = "Serialization"
           /\ ~last'.flush
           /\ memtable'.data = memtable.data
           /\ memtable'.size_bytes = memtable.size_bytes
           /\ sstables' = sstables
           /\ sstable_id' = sstable_id
           /\ disk' = disk]_vars

\* a put failed on a buffer that held a record, in a store with a run
C19_Witness ==
    /\ last.op = "insert" /\ last.kind = "Serialization"
    /\ last.value = Unencodable
    /\ memtable.data # <<>>
    /\ Len(sstables) = 1

\* sstable_id counts the runs of the list, and the i-th run, oldest first,
\* is the one at the path of id i - 1
InStep(tables, id, dir) ==
    /\ id = Len(tables)
    /\ \A i \in 1..Len(tables) : tables[i].path = SSTablePath(dir, i - 1)
    /\ \A i, j \in 1..Len(tables) : i # j => tables[i].path # tables[j].path

\* C20: in every state sstable_id is the number of runs in sstables, the
\* i-th run is the one built at the path of id i - 1, the paths of the runs
\* are pairwise distinct, and no step writes to the path of a run of the list.
C20_IdAndListInStep ==
    [][/\ InStep(sstables, sstable_id, config.data_dir)
       /\ InStep(sstables', sstable_id', config'.data_dir)
       /\ \A i \in 1..Len(sstables) :
              disk'[sstables[i].path] = disk[sstables[i].path]]_vars

\* a second run was built, at the path of id 1, beside the run of id 0
C20_Witness ==
    /\ last.op = "insert" /\ last.flush /\ last.kind = "Ok"
    /\ sstable_id = 2
    /\ sstables[1].path # sstables[2].path
    /\ disk[sstables[1].path] # NoFile
    /\ disk[sstables[2].path] # NoFile

\* C21: with a threshold above 0 the size counter of the memtable is below
\* the threshold in every state a call leaves, and after an insert that
\* returned Ok the memtable is empty with counter 0 exactly when that insert
\* flushed.
C21_BufferUnderThreshold ==
    config.memtable_size_threshold > 0 =>
        /\ memtable.size_bytes < config.memtable_size_threshold
        /\ (last.op = "insert" /\ last.kind = "Ok") =>
               /\ last.flush <=> (memtable.data = <<>> /\ memtable.size_bytes = 0)
               /\ ~last.flush => (memtable.data # <<>> /\ memtable.size_bytes > 0)

\* an insert returned Ok without a flush and left the counter one byte under
\* the threshold
C21_Witness ==
    /\ last.op = "insert" /\ last.kind = "Ok" /\ ~last.flush
    /\ config.memtable_size_threshold > 0
    /\ memtable.size_bytes = config.memtable_size_threshold - 1
    /\ Len(sstables) = 1

\* C22: every run of sstables was built from a buffer of at least one
\* record: its file holds a count of at least 1 and as many records, its
\* index has an entry, and the offset of the first entry is the first byte
\* after the header, where the smallest key of the run is stored.
C22_RunsNeverEmpty ==
    \A i \in 1..Len(sstables) :
        LET index == sstables[i].index
            file == disk[sstables[i].path]
            records == DecodeRecords(file, U64_BYTES)
        IN  /\ file # NoFile
            /\ DeU64(file, 0).ok /\ DeU64(file, 0).val >= 1
            /\ Len(records) = DeU64(file, 0).val
            /\ flushed[i] # <<>>
            /\ index # <<>>
            /\ index[1].position = U64_BYTES
            /\ index[1].key = records[1].key

\* with threshold 0 every insert flushed: two runs, each of the one record
\* just put
C22_Witness ==
    /\ config.memtable_size_threshold = 0
    /\ Len(sstables) = 2
    /\ \A i \in 1..2 : Len(flushed[i]) = 1 /\ Len(sstables[i].index) = 1
    /\ last.op = "insert" /\ last.flush /\ last.size = last.put

====
